---- MODULE Spec2Model ----
(***************************************************************************)
(* Model of the ML serving path of opsui-wmsv2 (packages/ml).              *)
(*                                                                         *)
(*   src/packages/ml/src/api/serve.py                 the serving process  *)
(*   src/packages/ml/scripts/models/train_duration_model.py  save_model,   *)
(*                                                          load_data     *)
(*   src/packages/ml/scripts/data/extract_features.py  the order columns,  *)
(*                                             the demand feature query    *)
(*   src/packages/ml/scripts/auto_retrain.py           train_all_models    *)
(*                                                                         *)
(* Spec          the artifact directory models/duration, the trainer that  *)
(*               writes into it, the serving process (lifespan, the two    *)
(*               module-level caches, the two prediction handlers, the     *)
(*               counters and the prediction log).                         *)
(* SpecForecast  the forecast block of predict_demand (lines 455-476)      *)
(*               applied to bounded histories and horizons.                *)
(*                                                                         *)
(* SpecRequest   request validation (the pydantic models, lines 55-81) and *)
(*               the feature vector of predict_order_duration (296-325)    *)
(*               applied to bounded request bodies.                        *)
(* SpecAudit     log_prediction_to_db (lines 205-240) called repeatedly.   *)
(* SpecFeatures  extract_demand_features on one SKU's bounded history, and *)
(*               the priority_level column of extract_order_features.      *)
(* SpecChange    extract_demand_features before and after the orders of    *)
(*               one <<sku, day>> change, over two SKUs.                   *)
(* SpecRetrain   auto_retrain.train_all_models over every way the three    *)
(*               training scripts can end.                                 *)
(*                                                                         *)
(* Numbers: durations are whole minutes on input, hundredths on output;    *)
(* daily quantities are whole units, forecasts hundredths of a unit.       *)
(***************************************************************************)
EXTENDS Integers, Sequences, FiniteSets, TLC

VARIABLES
    dirExists,        \* os.path.exists("models/duration")
    files,            \* the directory: file name -> content ("ok" | "corrupt")
    trainer,          \* save_model in progress: [pc, stamp]
    models_cache,     \* serve.py:37   model type -> loaded model (the file it came from)
    scalers_cache,    \* serve.py:38   model type -> loaded scaler (the file it came from)
    app,              \* lifespan: "stopped" | "starting" | "serving" | "failed"
    loader,           \* load_model in progress: [pc, scaler_path]
    req,              \* the request being handled: the handler's locals
    resp,             \* what the last finished request returned to its caller
    prediction_counter, \* serve.py:42  <<model_type, status>> -> count
    ml_predictions,   \* rows of table ml_predictions, in insertion order
    log_errors,       \* logger.error calls of log_prediction_to_db
    fc,               \* the forecast block on its own: [pc, rows, horizon, out]
    rq,               \* validation and feature assembly on their own
    fe,               \* the feature extractor on its own: [pc, table, ...]
    au,               \* log_prediction_to_db on its own: the last call
    rt                \* auto_retrain.train_all_models: [pc, i, results]

vars == <<dirExists, files, trainer, models_cache, scalers_cache, app, loader,
          req, resp, prediction_counter, ml_predictions, log_errors, fc,
          rq,
                   fe, au, rt>>

(***************************************************************************)
(* Bounds of the model.                                                    *)
(***************************************************************************)
\* training runs happen in seconds 9 .. MaxStamp of one minute
MaxStamp == 10
\* requests handled in one behaviour (caps the counters and the log)
MaxRequests == 1
\* raw model outputs range over -MaxRaw .. MaxRaw minutes
MaxRaw == 1
\* histories have at most MaxHist daily rows, each 0 .. MaxQty units
MaxHist == 7
MaxQty == 2
\* forecast horizons 1 .. MaxHorizon (the API allows 1 .. 365)
MaxHorizon == 2
\* a request body departs from a valid one in at most MaxBad fields
MaxBad == 2
\* the demand history of a SKU spans days 1 .. MaxDay, a second SKU's days
\* 1 .. MaxOther; a day's metric is 0 .. MaxVal (0: no order that day)
MaxDay == 8
MaxOther == 1
MaxVal == 1
\* calls of log_prediction_to_db followed in one behaviour of SpecAudit
MaxLog == 3

(***************************************************************************)
(* Values.                                                                 *)
(***************************************************************************)
ModelTypes == {"duration", "demand"}
Statuses == {"success", "error"}
Stamps == 9 .. MaxStamp

Max(a, b) == IF a >= b THEN a ELSE b
Min(a, b) == IF a <= b THEN a ELSE b

\* round(n / d, 0) for d > 0 as Python's round(): to nearest, ties to even
RoundHalfEven(n, d) ==
    LET q == n \div d
        r == n % d
    IN  IF 2 * r < d THEN q
        ELSE IF 2 * r > d THEN q + 1
        ELSE IF q % 2 = 0 THEN q ELSE q + 1

(***************************************************************************)
(* The artifact directory and its file names.                              *)
(*                                                                         *)
(* A file name is prefix ++ stamp ++ suffix.  save_model formats the stamp *)
(* with strftime('%Y%m%d_%H%M%S'); the runs of one behaviour differ in the *)
(* seconds field only, which strftime pads to two digits.  An Optional[str]*)
(* path is a set holding at most one name ({} is None).                    *)
(***************************************************************************)
\* strftime('%S'): zero-padded to width two
StampText(ts) == <<ts \div 10, ts % 10>>

FileName(prefix, ts, suffix) ==
    [prefix |-> prefix, stamp |-> StampText(ts), suffix |-> suffix]

\* the files one run of save_model writes, in the order it writes them
ModelFile(ts) == FileName("model_", ts, ".pkl")
ScalerFile(ts) == FileName("scaler_", ts, ".pkl")
JsonFiles(ts) ==
    {FileName("feature_names_", ts, ".json"), FileName("metrics_", ts, ".json")}

\* the seconds a stamp text denotes
StampValue(text) ==
    IF Len(text) = 1 THEN text[1] ELSE 10 * text[1] + text[2]

\* str < str on two digit strings that are followed by the same suffix
\* ".pkl": the first differing character decides, and where one string is a
\* proper prefix of the other its '.' sorts before the other's digit
TextLess(s, t) ==
    \/ \E i \in 1 .. Min(Len(s), Len(t)) :
          /\ s[i] < t[i]
          /\ \A j \in 1 .. (i - 1) : s[j] = t[j]
    \/ /\ Len(s) < Len(t)
       /\ \A j \in 1 .. Len(s) : s[j] = t[j]

\* find_latest_model without its os.path.exists test: os.listdir raises
FindLatestModel_NoDirCheck(exists, names, prefix) ==
    LET listed == {f \in names : f.prefix = prefix /\ f.suffix = ".pkl"}
    IN  IF ~exists THEN [raised |-> TRUE, path |-> {}]
        ELSE [raised |-> FALSE,
              path |-> {f \in listed :
                          \A g \in listed : ~TextLess(f.stamp, g.stamp)}]

\* find_latest_model: the result is [raised, path]
FindLatestModel(exists, names, prefix) ==
    LET listed == {f \in names : f.prefix = prefix /\ f.suffix = ".pkl"}
    IN  IF ~exists THEN [raised |-> FALSE, path |-> {}]
        ELSE IF listed = {} THEN [raised |-> FALSE, path |-> {}]
        ELSE [raised |-> FALSE,
              path |-> {f \in listed :
                          \A g \in listed : ~TextLess(f.stamp, g.stamp)}]

\* joblib.load(path) succeeds iff the file holds a complete pickle
Loads(dir, f) == f \in DOMAIN dir /\ dir[f] = "ok"

\* the stamps already present in the directory
UsedStamps(dir) == {StampValue(f.stamp) : f \in DOMAIN dir}

(***************************************************************************)
(* OrderDurationTrainer.save_model, one step per file it writes.           *)
(***************************************************************************)
TrainerIdle == [pc |-> "idle", stamp |-> 0]

\* os.makedirs and the timestamp: runs are one second apart
SaveBegin ==
    /\ trainer.pc = "idle"
    /\ \E ts \in Stamps :
          /\ \A u \in Stamps : u < ts <=> u \in UsedStamps(files)
          /\ trainer' = [pc |-> "model", stamp |-> ts]
    /\ dirExists' = TRUE
    /\ UNCHANGED <<files, models_cache, scalers_cache, app, loader, req, resp,
                   prediction_counter, ml_predictions, log_errors, fc, rq,
                   fe, au, rt>>

\* joblib.dump(self.best_model, model_path); the write may be left damaged
SaveModelFile ==
    /\ trainer.pc = "model"
    /\ \E content \in {"ok", "corrupt"} :
          files' = (ModelFile(trainer.stamp) :> content) @@ files
    /\ trainer' = [trainer EXCEPT !.pc = "scaler"]
    /\ UNCHANGED <<dirExists, models_cache, scalers_cache, app, loader, req,
                   resp, prediction_counter, ml_predictions, log_errors, fc, rq,
                   fe, au, rt>>

\* joblib.dump(self.scaler, scaler_path)
SaveScalerFile ==
    /\ trainer.pc = "scaler"
    /\ \E content \in {"ok", "corrupt"} :
          files' = (ScalerFile(trainer.stamp) :> content) @@ files
    /\ trainer' = [trainer EXCEPT !.pc = "json"]
    /\ UNCHANGED <<dirExists, models_cache, scalers_cache, app, loader, req,
                   resp, prediction_counter, ml_predictions, log_errors, fc, rq,
                   fe, au, rt>>

\* feature_names_<stamp>.json and metrics_<stamp>.json
SaveJsonFiles ==
    /\ trainer.pc = "json"
    /\ files' = [f \in JsonFiles(trainer.stamp) |-> "ok"] @@ files
    /\ trainer' = TrainerIdle
    /\ UNCHANGED <<dirExists, models_cache, scalers_cache, app, loader, req,
                   resp, prediction_counter, ml_predictions, log_errors, fc, rq,
                   fe, au, rt>>

(***************************************************************************)
(* The serving process: lifespan, load_all_models, load_model.             *)
(*                                                                         *)
(* The caches are module globals, so they outlive a lifespan; the model    *)
(* follows one interpreter.  load_model is two steps, one per              *)
(* file it deserializes, so that a failure of the second is seen after the *)
(* effect of the first.                                                    *)
(***************************************************************************)
LoaderIdle == [pc |-> "idle", scaler_path |-> {}]
NoCache == [t \in {} |-> 0]

\* load_model lines 153-154: a type already cached is returned as cached
AlreadyCached(cache, model_type) == model_type \in DOMAIN cache

\* load_model line 160 storing the model under the type "demand"
CacheModel_AsDemand(cache, model_type, f) == ("demand" :> f) @@ cache

\* load_model line 160, executed before the scaler is read
CacheModel(cache, model_type, f) == (model_type :> f) @@ cache

\* lifespan startup up to and including load_model's model file
LifespanStartup ==
    /\ app \in {"stopped", "failed"}
    /\ loader.pc = "idle"
    /\ LET found == FindLatestModel(dirExists, DOMAIN files, "model_")
           scaler == FindLatestModel(dirExists, DOMAIN files, "scaler_")
       IN  IF found.raised \/ scaler.raised
           THEN /\ app' = "failed"
                /\ UNCHANGED <<models_cache, loader>>
           ELSE IF found.path = {}
           THEN /\ app' = "serving"
                /\ UNCHANGED <<models_cache, loader>>
           ELSE IF AlreadyCached(models_cache, "duration")
           THEN /\ app' = "serving"
                /\ UNCHANGED <<models_cache, loader>>
           ELSE \E f \in found.path :
                   IF Loads(files, f)
                   THEN /\ models_cache' = CacheModel(models_cache, "duration", f)
                        /\ loader' = [pc |-> "scaler", scaler_path |-> scaler.path]
                        /\ app' = "starting"
                   ELSE /\ app' = "failed"
                        /\ UNCHANGED <<models_cache, loader>>
    /\ UNCHANGED <<dirExists, files, trainer, scalers_cache, req, resp,
                   prediction_counter, ml_predictions, log_errors, fc, rq,
                   fe, au, rt>>

\* load_model lines 162-168, then lifespan reaches its yield
LoadScaler ==
    /\ loader.pc = "scaler"
    /\ loader' = LoaderIdle
    /\ IF \E f \in loader.scaler_path : f \in DOMAIN files
       THEN \E f \in loader.scaler_path :
               IF Loads(files, f)
               THEN /\ scalers_cache' = ("duration" :> f) @@ scalers_cache
                    /\ app' = "serving"
               ELSE /\ app' = "failed"
                    /\ UNCHANGED scalers_cache
       ELSE /\ app' = "serving"
            /\ UNCHANGED scalers_cache
    /\ UNCHANGED <<dirExists, files, trainer, models_cache, req, resp,
                   prediction_counter, ml_predictions, log_errors, fc, rq,
                   fe, au, rt>>

\* lifespan after its yield
LifespanShutdown ==
    /\ app = "serving"
    /\ app' = "stopped"
    /\ UNCHANGED <<dirExists, files, trainer, models_cache, scalers_cache,
                   loader, req, resp, prediction_counter, ml_predictions,
                   log_errors, fc, rq,
                   fe, au, rt>>

(***************************************************************************)
(* The forecast block of predict_demand (lines 455-476).                   *)
(*                                                                         *)
(* avg_demand + trend * day is the rational                                *)
(*   (7 * sum(recent) + len(recent) * diff * day) / (7 * len(recent))      *)
(* with diff = recent[-1] - recent[-7] when len(recent) >= 7 and 0         *)
(* otherwise; forecast_quantity is kept in hundredths.                     *)
(***************************************************************************)
RECURSIVE SumSeq(_)
SumSeq(s) == IF s = <<>> THEN 0 ELSE s[1] + SumSeq(Tail(s))

\* rows[-7:]
LastSeven(rows) ==
    IF Len(rows) <= 7 THEN rows ELSE SubSeq(rows, Len(rows) - 6, Len(rows))

\* line 9 imports datetime only: the name timedelta (line 473) is unbound
TimedeltaDefined == FALSE

\* lines 463-469 and 475: round(max(0, base_forecast + trend * day), 2)
ForecastQuantity(recent, day) ==
    LET n == Len(recent)
        diff == IF n >= 2
                THEN (IF n >= 7 THEN recent[n] - recent[n - 6] ELSE 0)
                ELSE 0
        num == 7 * SumSeq(recent) + n * diff * day
    IN  RoundHalfEven(100 * Max(0, num), 7 * n)

\* lines 456-476 for a non-empty rows: [raised, forecasts]
ForecastBlock(rows, horizon) ==
    LET recent == LastSeven(rows)
    IN  IF horizon >= 1 /\ ~TimedeltaDefined
        THEN [raised |-> TRUE, forecasts |-> <<>>]
        ELSE [raised |-> FALSE,
              forecasts |-> [day \in 1 .. horizon |->
                               [day |-> day,
                                forecast_quantity |->
                                    ForecastQuantity(recent, day)]]]

\* daily totals of one SKU, oldest first
Histories ==
    UNION {[1 .. n -> 0 .. MaxQty] : n \in 0 .. MaxHist}

\* the history of section 8 of the specification
ExampleHistory == <<10, 12, 9, 11, 14, 13, 15>>

\* the forecast block run on its own
FcOff == [pc |-> "off", rows |-> <<>>, horizon |-> 0,
          out |-> [raised |-> FALSE, forecasts |-> <<>>]]

RunForecast ==
    /\ fc.pc = "ready"
    /\ fc' = [fc EXCEPT !.pc = "done",
                        !.out = ForecastBlock(fc.rows, fc.horizon)]
    /\ UNCHANGED <<dirExists, files, trainer, models_cache, scalers_cache,
                   app, loader, req, resp, prediction_counter,
                   ml_predictions, log_errors, rq,
                   fe, au, rt>>

(***************************************************************************)
(* The prediction handlers.                                                *)
(*                                                                         *)
(* predict_order_duration is three steps (read the caches, score, log and  *)
(* return), so that a load may fall between any two of them; the event     *)
(* loop runs a handler without interruption, which is one of the           *)
(* interleavings.  predict_demand is one step.                             *)
(*                                                                         *)
(* A response records, besides what the caller receives, what the handler  *)
(* saw: model_seen (the test of line 287 / 409), rows (what the history    *)
(* query holds for the SKU), raw (what model.predict returned), read (the  *)
(* pair lines 293-294 took from the caches) and used (what lines 322 and   *)
(* 325 were called on).                                                    *)
(***************************************************************************)
RawOutputs == (0 - MaxRaw) .. MaxRaw
Horizons == 1 .. MaxHorizon
\* the histories the history query returns in Spec
ServedHistories == {<<>>} \cup {<<q>> : q \in 0 .. MaxQty}

NoResponse ==
    [endpoint |-> "none", status |-> 0, model_seen |-> FALSE, rows |-> <<>>,
     raw |-> 0, read |-> <<{}, {}>>, used |-> <<{}, {}>>,
     duration_minutes |-> 0, duration_hours |-> 0, forecasts |-> <<>>,
     proba |-> {}, confidence |-> {}]

ReqIdle == [pc |-> "idle", model |-> {}, scaler |-> {}, response |-> NoResponse]

\* .inc() applied twice
Inc_Twice(counter, model_type, status) ==
    [counter EXCEPT ![<<model_type, status>>] = @ + 2]

\* prediction_counter.labels(model_type, status).inc()
Inc(counter, model_type, status) ==
    [counter EXCEPT ![<<model_type, status>>] = @ + 1]

Total(counter) ==
    counter[<<"duration", "success">>] + counter[<<"duration", "error">>]
    + counter[<<"demand", "success">>] + counter[<<"demand", "error">>]

\* an exception: HTTPException(status_code) or any other
Http(code) == [http |-> TRUE, status |-> code]
OtherError == [http |-> FALSE, status |-> 0]

\* predict_order_duration lines 378-388: `except Exception` also catches
\* the handler's own HTTPException
DurationExcept(exc) == [status |-> 500, counted |-> TRUE]

\* predict_demand lines 507-519: HTTPException is re-raised as it is
DemandExcept(exc) ==
    IF exc.http THEN [status |-> exc.status, counted |-> FALSE]
    ELSE [status |-> 500, counted |-> TRUE]

\* dict.get / `in` on a cache: the cached object as an Optional
Cached(cache, model_type) ==
    IF model_type \in DOMAIN cache THEN {cache[model_type]} ELSE {}

\* line 326 without the floor
Clamp_Missing(prediction) == prediction

\* line 326: max(0, prediction)
Clamp(prediction) == Max(0, prediction)

\* what model.predict_proba(features)[0].max() yields, in ten-thousandths,
\* as an Optional: {} for a model without the attribute (line 330)
NativeEstimates == {{}, {10000}}

\* a fallback that follows the prediction
Confidence_FromPrediction(proba, prediction) ==
    IF proba # {} THEN CHOOSE p \in proba : TRUE
    ELSE IF prediction = 0 THEN 8500 ELSE 8000

\* lines 329-336: the native estimate, else the constant 0.85
Confidence(proba, prediction) ==
    IF proba # {} THEN CHOOSE p \in proba : TRUE ELSE 8500

\* line 357: round(float(confidence), 4) if confidence else None
ResponseConfidence(confidence) ==
    IF confidence = 0 THEN {} ELSE {confidence}

\* line 497: confidence=0.75
DemandConfidence == {7500}

\* lines 322 and 325 reading the caches again instead of the locals
ScoreHandles_FromCache(r, mcache, scache) ==
    <<Cached(mcache, "duration"), Cached(scache, "duration")>>

\* lines 321-325: scaler.transform and model.predict are called on the locals
ScoreHandles(r, mcache, scache) == <<r.model, r.scaler>>

\* lines 282-294 dropping the scaler entry once it has been read
DurationBegin_DropsScaler ==
    /\ req.pc = "idle"
    /\ app \in {"starting", "serving"}
    /\ Total(prediction_counter) < MaxRequests
    /\ "duration" \in DOMAIN models_cache
    /\ req' = [ReqIdle EXCEPT
                  !.pc = "loaded",
                  !.model = Cached(models_cache, "duration"),
                  !.scaler = Cached(scalers_cache, "duration"),
                  !.response.read =
                      <<Cached(models_cache, "duration"),
                        Cached(scalers_cache, "duration")>>]
    /\ scalers_cache' = NoCache
    /\ UNCHANGED <<dirExists, files, trainer, models_cache, app, loader,
                   resp, prediction_counter, ml_predictions, log_errors,
                   fc, rq,
                   fe, au, rt>>

\* lines 282-294, and 378-388 when the model is not cached
DurationBegin ==
    /\ req.pc = "idle"
    /\ app \in {"starting", "serving"}
    /\ Total(prediction_counter) < MaxRequests
    /\ IF "duration" \notin DOMAIN models_cache
       THEN LET caught == DurationExcept(Http(503))
            IN  /\ prediction_counter' =
                       IF caught.counted
                       THEN Inc(prediction_counter, "duration", "error")
                       ELSE prediction_counter
                /\ resp' = [NoResponse EXCEPT !.endpoint = "duration",
                                              !.status = caught.status]
                /\ UNCHANGED req
       ELSE /\ req' = [ReqIdle EXCEPT
                          !.pc = "loaded",
                          !.model = Cached(models_cache, "duration"),
                          !.scaler = Cached(scalers_cache, "duration"),
                          !.response.read =
                              <<Cached(models_cache, "duration"),
                                Cached(scalers_cache, "duration")>>]
            /\ UNCHANGED <<resp, prediction_counter>>
    /\ UNCHANGED <<dirExists, files, trainer, models_cache, scalers_cache,
                   app, loader, ml_predictions, log_errors, fc, rq,
                   fe, au, rt>>

\* lines 296-362, and 378-388 when transform or predict raises
DurationScore ==
    /\ req.pc = "loaded"
    /\ \E raised \in BOOLEAN, raw \in RawOutputs, proba \in NativeEstimates :
          IF raised
          THEN LET caught == DurationExcept(OtherError)
               IN  /\ raw = 0
                   /\ proba = {}
                   /\ prediction_counter' =
                          Inc(prediction_counter, "duration", "error")
                   /\ resp' = [req.response EXCEPT
                                  !.endpoint = "duration",
                                  !.status = caught.status,
                                  !.model_seen = TRUE]
                   /\ req' = ReqIdle
          ELSE LET prediction == Clamp(raw)
               IN  /\ prediction_counter' =
                          Inc(prediction_counter, "duration", "success")
                   /\ req' = [req EXCEPT
                          !.pc = "scored",
                          !.response = [req.response EXCEPT
                              !.endpoint = "duration",
                              !.status = 200,
                              !.model_seen = TRUE,
                              !.raw = raw,
                              !.used = ScoreHandles(req, models_cache,
                                                    scalers_cache),
                              !.duration_minutes = 100 * prediction,
                              !.duration_hours =
                                  RoundHalfEven(100 * prediction, 60),
                              !.proba = proba,
                              !.confidence = ResponseConfidence(
                                  Confidence(proba, prediction))]]
                   /\ UNCHANGED resp
    /\ UNCHANGED <<dirExists, files, trainer, models_cache, scalers_cache,
                   app, loader, ml_predictions, log_errors, fc, rq,
                   fe, au, rt>>

\* an INSERT that overwrites the newest row instead of adding one
InsertPrediction_Overwrite(table, row) ==
    IF table = <<>> THEN <<row>> ELSE [table EXCEPT ![Len(table)] = row]

\* log_prediction_to_db lines 217-238: INSERT INTO ml_predictions, commit
InsertPrediction(table, row) == Append(table, row)

\* log_prediction_to_db letting the exception of its try block out
LogPredictionExcept_Raises(exc) == [raised |-> TRUE, logged |-> TRUE]

\* log_prediction_to_db lines 239-240: `except Exception` reports the
\* failure with logger.error and returns
LogPredictionExcept(exc) == [raised |-> FALSE, logged |-> TRUE]

\* lines 364-376 returning the response without the call of 365-374
DurationLog_NoAppend ==
    /\ req.pc = "scored"
    /\ resp' = req.response
    /\ req' = ReqIdle
    /\ UNCHANGED <<dirExists, files, trainer, models_cache, scalers_cache,
                   app, loader, prediction_counter, ml_predictions,
                   log_errors, fc, rq,
                   fe, au, rt>>

\* lines 364-376 with log_prediction_to_db (205-240): the insert commits,
\* or connect, execute or commit raises inside its try block
DurationLog ==
    /\ req.pc = "scored"
    /\ \E committed \in BOOLEAN :
          IF committed
          THEN /\ ml_predictions' = InsertPrediction(ml_predictions,
                      [prediction_type |-> "order_duration",
                       duration_minutes |-> req.response.duration_minutes])
               /\ resp' = req.response
               /\ UNCHANGED <<log_errors, prediction_counter>>
          ELSE LET out == LogPredictionExcept(OtherError)
               IN  /\ log_errors' =
                          IF out.logged THEN log_errors + 1 ELSE log_errors
                   /\ UNCHANGED ml_predictions
                   /\ IF out.raised
                      THEN /\ prediction_counter' =
                                  Inc(prediction_counter, "duration", "error")
                           /\ resp' = [req.response EXCEPT
                                  !.status = DurationExcept(OtherError).status,
                                  !.duration_minutes = 0,
                                  !.duration_hours = 0]
                      ELSE /\ resp' = req.response
                           /\ UNCHANGED prediction_counter
    /\ req' = ReqIdle
    /\ UNCHANGED <<dirExists, files, trainer, models_cache, scalers_cache,
                   app, loader, fc, rq,
                   fe, au, rt>>

\* predict_demand, lines 404-519
PredictDemand ==
    /\ req.pc = "idle"
    /\ app \in {"starting", "serving"}
    /\ Total(prediction_counter) < MaxRequests
    /\ \E rows \in ServedHistories, horizon \in Horizons :
          LET asked == [NoResponse EXCEPT !.endpoint = "demand", !.rows = rows]
          IN  IF "demand" \notin DOMAIN models_cache
              THEN LET caught == DemandExcept(Http(503))
                   IN  /\ resp' = [asked EXCEPT !.status = caught.status]
                       /\ prediction_counter' =
                              IF caught.counted
                              THEN Inc(prediction_counter, "demand", "error")
                              ELSE prediction_counter
              ELSE IF rows = <<>>
              THEN LET caught == DemandExcept(Http(404))
                   IN  /\ resp' = [asked EXCEPT !.status = caught.status,
                                                !.model_seen = TRUE]
                       /\ prediction_counter' =
                              IF caught.counted
                              THEN Inc(prediction_counter, "demand", "error")
                              ELSE prediction_counter
              ELSE LET out == ForecastBlock(rows, horizon)
                   IN  IF out.raised
                       THEN /\ resp' = [asked EXCEPT
                                   !.status = DemandExcept(OtherError).status,
                                   !.model_seen = TRUE]
                            /\ prediction_counter' =
                                   Inc(prediction_counter, "demand", "error")
                       ELSE /\ resp' = [asked EXCEPT
                                   !.status = 200,
                                   !.model_seen = TRUE,
                                   !.forecasts = out.forecasts,
                                   !.confidence = DemandConfidence]
                            /\ prediction_counter' =
                                   Inc(prediction_counter, "demand", "success")
    /\ UNCHANGED <<dirExists, files, trainer, models_cache, scalers_cache,
                   app, loader, req, ml_predictions, log_errors, fc, rq,
                   fe, au, rt>>

ZeroCounter == [k \in ModelTypes \X Statuses |-> 0]

FeOff == [pc |-> "off"]
AuOff == [pc |-> "off"]
RtOff == [pc |-> "off"]

(***************************************************************************)
(* Request validation and feature assembly.                                *)
(*                                                                         *)
(* A request body maps the field names it carries to numbers; a field the  *)
(* body does not carry is outside its domain.  FastAPI validates the body  *)
(* against the pydantic model before it calls the handler and answers 422  *)
(* with one entry per failing field.                                       *)
(***************************************************************************)
Range(s) == {s[i] : i \in DOMAIN s}

\* the fields OrderDurationRequest declares with Field(...), in order
OrderDurationFields ==
    <<"order_item_count", "order_total_value", "hour_of_day", "day_of_week",
      "is_peak_hour", "is_weekend", "sku_count", "avg_sku_popularity",
      "max_sku_popularity", "zone_diversity", "max_distance_zone",
      "priority_level", "picker_count">>

\* the fields DemandForecastRequest declares with Field(...), in order
DemandForecastFields == <<"sku_id", "forecast_horizon_days">>

RequestFields(endpoint) ==
    IF endpoint = "duration" THEN OrderDurationFields ELSE DemandForecastFields

\* the ge= of a field, as an Optional
Ge(field) ==
    IF field \in {"order_item_count", "sku_count", "zone_diversity",
                  "max_distance_zone", "priority_level",
                  "forecast_horizon_days"} THEN {1}
    ELSE IF field = "sku_id" THEN {}
    ELSE {0}

\* the le= of a field, as an Optional
Le(field) ==
    IF field = "hour_of_day" THEN {23}
    ELSE IF field = "day_of_week" THEN {6}
    ELSE IF field \in {"is_peak_hour", "is_weekend"} THEN {1}
    ELSE IF field = "max_distance_zone" THEN {5}
    ELSE IF field = "priority_level" THEN {4}
    ELSE IF field = "forecast_horizon_days" THEN {365}
    ELSE {}

\* what makes one field fail: it is required and missing, or out of range
FieldFails(field, body) ==
    \/ field \notin DOMAIN body
    \/ \E lo \in Ge(field) : body[field] < lo
    \/ \E hi \in Le(field) : body[field] > hi

\* validation that stops at the first failing field
Violated_FirstOnly(fields, body) ==
    {fields[i] : i \in {j \in DOMAIN fields :
                          /\ FieldFails(fields[j], body)
                          /\ \A k \in 1 .. (j - 1) :
                                ~FieldFails(fields[k], body)}}

\* pydantic validation: every field is validated and every failure is
\* collected into the one ValidationError
Violated(fields, body) ==
    {f \in Range(fields) : FieldFails(f, body)}

\* lines 304-318: the attributes np.array([[...]]) reads, in order
FeatureAttributes ==
    <<"order_item_count", "order_total_value", "hour_of_day", "day_of_week",
      "is_peak_hour", "is_weekend", "sku_count", "avg_sku_popularity",
      "max_sku_popularity", "zone_diversity", "max_distance_zone",
      "priority_level", "picker_count">>

\* the array with two of its entries exchanged
Features_Swapped(request) ==
    [i \in DOMAIN FeatureAttributes |->
        request[FeatureAttributes[IF i = 10 THEN 11
                                  ELSE IF i = 11 THEN 10 ELSE i]]]

\* lines 304-318: features[0], read from a validated request
Features(request) ==
    [i \in DOMAIN FeatureAttributes |-> request[FeatureAttributes[i]]]

\* extract_order_features: the columns of its final SELECT, in order
ExtractOrderColumns ==
    <<"order_id", "order_item_count", "order_total_value", "hour_of_day",
      "day_of_week", "is_peak_hour", "is_weekend", "sku_count",
      "avg_sku_popularity", "max_sku_popularity", "zone_diversity",
      "max_distance_zone", "priority_level", "picker_count", "status",
      "created_at">>

\* load_data: pd.merge(features_df, targets_df[['order_id',
\* 'duration_minutes']], on='order_id') keeps the left columns, then the
\* right's
MergedColumns == ExtractOrderColumns \o <<"duration_minutes">>

drop_cols == {"order_id", "status", "created_at", "duration_minutes"}

\* load_data: feature_cols, which is X.columns.tolist()
FeatureCols(columns) == SelectSeq(columns, LAMBDA c : c \notin drop_cols)

\* what save_model writes to feature_names_<stamp>.json: the list
\* load_data left in self.feature_names, or null when load_data returned
\* its cached frame (line 70) and never assigned it
FeatureNamesSaved(from_cache) ==
    IF from_cache THEN {} ELSE {FeatureCols(MergedColumns)}

\* a feature_names file written from a frame whose zone columns came in
\* the other order (the directory is read as it is found, lines 175-184)
DriftedNames ==
    [i \in DOMAIN FeatureCols(MergedColumns) |->
        FeatureCols(MergedColumns)[IF i = 10 THEN 11
                                   ELSE IF i = 11 THEN 10 ELSE i]]

\* the feature_names files an artifact in models/duration may come with
ArtifactSchemas ==
    {FeatureNamesSaved(TRUE), FeatureNamesSaved(FALSE), {DriftedNames}}

\* a body that passes validation, and the ways one field departs from it
ValidValue(field) ==
    IF field = "sku_id" THEN 1 ELSE CHOOSE lo \in Ge(field) : TRUE

Kinds == {"absent", "below", "above", "other"}

Depart(field, kind) ==
    IF kind = "below" THEN ValidValue(field) - 1
    ELSE IF kind = "above" /\ Le(field) # {}
    THEN (CHOOSE hi \in Le(field) : TRUE) + 1
    ELSE ValidValue(field) + 1

\* the body that departs in the fields of DOMAIN how, each in its way
Body(fields, how) ==
    [f \in {g \in Range(fields) : g \notin DOMAIN how \/ how[g] # "absent"} |->
        IF f \in DOMAIN how THEN Depart(f, how[f]) ELSE ValidValue(f)]

RqOff == [pc |-> "off", endpoint |-> "none", body |-> <<>>, schema |-> {},
          errors |-> {}, status |-> 0, features |-> <<>>]

\* FastAPI's validation of the body, before the handler is called
ValidateRequest ==
    /\ rq.pc = "received"
    /\ LET errors == Violated(RequestFields(rq.endpoint), rq.body)
       IN  IF errors # {}
           THEN rq' = [rq EXCEPT !.pc = "rejected", !.status = 422,
                                 !.errors = errors]
           ELSE rq' = [rq EXCEPT !.pc = "validated"]
    /\ UNCHANGED <<dirExists, files, trainer, models_cache, scalers_cache,
                   app, loader, req, resp, prediction_counter,
                   ml_predictions, log_errors, fc,
                   fe, au, rt>>

\* lines 296-318 of predict_order_duration
AssembleFeatures ==
    /\ rq.pc = "validated"
    /\ rq.endpoint = "duration"
    /\ rq' = [rq EXCEPT !.pc = "featurized", !.features = Features(rq.body)]
    /\ UNCHANGED <<dirExists, files, trainer, models_cache, scalers_cache,
                   app, loader, req, resp, prediction_counter,
                   ml_predictions, log_errors, fc,
                   fe, au, rt>>

\* lines 320-326 and 378-388: transform and predict return or raise; the
\* handler never reads the artifact's feature_names file
ScoreFeatures ==
    /\ rq.pc = "featurized"
    /\ \E raised \in BOOLEAN :
          IF raised
          THEN rq' = [rq EXCEPT !.pc = "failed",
                                !.status = DurationExcept(OtherError).status]
          ELSE rq' = [rq EXCEPT !.pc = "scored", !.status = 200]
    /\ UNCHANGED <<dirExists, files, trainer, models_cache, scalers_cache,
                   app, loader, req, resp, prediction_counter,
                   ml_predictions, log_errors, fc,
                   fe, au, rt>>

(***************************************************************************)
(* FeatureExtractor.extract_demand_features (extract_features.py 246-337). *)
(*                                                                         *)
(* A table maps <<sku, day>> to the day's metric (order_count or           *)
(* total_quantity); daily_demand is a GROUP BY over the joined order       *)
(* items, so it has a row for <<sku, day>> exactly when the metric is      *)
(* positive.  A window function sees the rows of its partition in          *)
(* demand_date order.  AVG is kept as <<sum, count>>, NULL is {}.          *)
(***************************************************************************)
Skus == {1, 2}
Days == 1 .. MaxDay
Cells == ({1} \X Days) \cup ({2} \X (1 .. MaxOther))

\* the rows of daily_demand
DailyDemand(table) == {c \in Cells : table[c] > 0}

\* a window without PARTITION BY: every row of daily_demand
Partition_All(table, sku) == DailyDemand(table)

\* PARTITION BY sku_id
Partition(table, sku) == {c \in DailyDemand(table) : c[1] = sku}

\* ORDER BY demand_date within a window (sku breaks ties where a window
\* holds more than one sku)
Before(c, d) == c[2] < d[2] \/ (c[2] = d[2] /\ c[1] < d[1])

\* the rows of the window between c and d, c excluded and d included
Between(rows, c, d) == {x \in rows : Before(c, x) /\ (x = d \/ Before(x, d))}

RECURSIVE SumOver(_, _)
SumOver(table, rows) ==
    IF rows = {} THEN 0
    ELSE LET c == CHOOSE x \in rows : TRUE
         IN  table[c] + SumOver(table, rows \ {c})

\* LEAD(metric, k): the row k rows after the current one
Lag_Lead(table, c, k) ==
    LET rows == Partition(table, c[1])
    IN  {table[x] : x \in {y \in rows :
                              /\ Before(c, y)
                              /\ Cardinality(Between(rows, c, y)) = k}}

\* LAG(metric, k) OVER (PARTITION BY sku_id ORDER BY demand_date): the row
\* k rows before the current one, NULL when there is none
Lag(table, c, k) ==
    LET rows == Partition(table, c[1])
    IN  {table[x] : x \in {y \in rows :
                              /\ Before(y, c)
                              /\ Cardinality(Between(rows, y, c)) = k}}

\* AVG(metric) OVER (PARTITION BY sku_id ORDER BY demand_date
\*                   ROWS BETWEEN 6 PRECEDING AND CURRENT ROW)
MovingAverage(table, c) ==
    LET rows == Partition(table, c[1])
        frame == {y \in rows :
                    \/ y = c
                    \/ Before(y, c) /\ Cardinality(Between(rows, y, c)) <= 6}
    IN  <<SumOver(table, frame), Cardinality(frame)>>

\* sku_stats: AVG(metric) ... GROUP BY sku_id
AvgDaily(table, sku) ==
    LET rows == {c \in DailyDemand(table) : c[1] = sku}
    IN  <<SumOver(table, rows), Cardinality(rows)>>

\* sku_stats: STDDEV(metric) ... GROUP BY sku_id.  STDDEV is the sample
\* standard deviation: NULL over one row, else sqrt(q / (n * (n - 1)))
\* with q = n * sum(x^2) - sum(x)^2; the model keeps q
StdDaily(table, sku) ==
    LET rows == {c \in DailyDemand(table) : c[1] = sku}
        n == Cardinality(rows)
        squares == [c \in Cells |-> table[c] * table[c]]
    IN  IF n < 2 THEN {}
        ELSE {n * SumOver(squares, rows)
                - SumOver(table, rows) * SumOver(table, rows)}

\* the final SELECT: one output row per row of lag_features
DemandFeatures(table) ==
    [c \in DailyDemand(table) |->
        [lag1 |-> Lag(table, c, 1),
         lag7 |-> Lag(table, c, 7),
         ma7 |-> MovingAverage(table, c),
         avg_daily |-> AvgDaily(table, c[1]),
         std_daily |-> StdDaily(table, c[1])]]

\* extract_order_features lines 163-169 with ELSE NULL
PriorityLevel_ElseNull(priority) ==
    IF priority = {"URGENT"} THEN {4}
    ELSE IF priority = {"HIGH"} THEN {3}
    ELSE IF priority = {"NORMAL"} THEN {2}
    ELSE IF priority = {"LOW"} THEN {1}
    ELSE {}

\* extract_order_features lines 163-169: CASE ob.priority WHEN ... ELSE 2
\* (the label is an Optional: {} is NULL)
PriorityLevel(priority) ==
    IF priority = {"URGENT"} THEN {4}
    ELSE IF priority = {"HIGH"} THEN {3}
    ELSE IF priority = {"NORMAL"} THEN {2}
    ELSE IF priority = {"LOW"} THEN {1}
    ELSE {2}

\* orders.priority: the four labels, a label the CASE does not list, NULL
Priorities == {{"LOW"}, {"NORMAL"}, {"HIGH"}, {"URGENT"}, {"urgent"}, {}}

NoTable == [c \in Cells |-> 0]

FeReady == [pc |-> "ready", kind |-> "demand", table |-> NoTable,
            priority |-> {}, out |-> <<>>, before |-> <<>>,
            changed |-> <<0, 0>>]

\* extract_demand_features
ExtractDemandFeatures ==
    /\ fe.pc = "ready"
    /\ fe.kind = "demand"
    /\ fe' = [fe EXCEPT !.pc = "extracted", !.out = DemandFeatures(fe.table)]
    /\ UNCHANGED <<dirExists, files, trainer, models_cache, scalers_cache,
                   app, loader, req, resp, prediction_counter,
                   ml_predictions, log_errors, fc, rq, au, rt>>

\* extract_order_features: the priority_level column of one order
ExtractOrderFeatures ==
    /\ fe.pc = "ready"
    /\ fe.kind = "order"
    /\ fe' = [fe EXCEPT !.pc = "extracted",
                        !.out = [priority_level |->
                                    PriorityLevel(fe.priority)]]
    /\ UNCHANGED <<dirExists, files, trainer, models_cache, scalers_cache,
                   app, loader, req, resp, prediction_counter,
                   ml_predictions, log_errors, fc, rq, au, rt>>

\* the orders of one <<sku, day>> change (orders are placed, cancelled or
\* re-dated) and extract_demand_features is run again
ChangeRows ==
    /\ fe.pc = "extracted"
    /\ fe.kind = "demand"
    /\ \E c \in Cells, v \in 0 .. (MaxVal + 1) :
          /\ v # fe.table[c]
          /\ LET table == [fe.table EXCEPT ![c] = v]
             IN  fe' = [fe EXCEPT !.pc = "changed",
                                  !.table = table,
                                  !.before = fe.out,
                                  !.out = DemandFeatures(table),
                                  !.changed = c]
    /\ UNCHANGED <<dirExists, files, trainer, models_cache, scalers_cache,
                   app, loader, req, resp, prediction_counter,
                   ml_predictions, log_errors, fc, rq, au, rt>>

(***************************************************************************)
(* log_prediction_to_db (lines 205-240) on its own, called as line 365     *)
(* calls it: with request.dict() and the response's prediction.            *)
(***************************************************************************)
\* request.dict() of two validated requests
AuditInputs ==
    {Body(OrderDurationFields, [f \in S |-> "other"]) :
        S \in {{}, {"picker_count"}}}

\* response.prediction["duration_minutes"], in hundredths
AuditOutputs == {100 * Clamp(raw) : raw \in RawOutputs}

AuReady == [pc |-> "ready", input_features |-> <<>>, duration_minutes |-> 0,
            committed |-> FALSE]

\* one call of log_prediction_to_db
LogPredictionToDb ==
    /\ au.pc = "ready"
    /\ Len(ml_predictions) + log_errors < MaxLog
    /\ \E features \in AuditInputs, minutes \in AuditOutputs,
          committed \in BOOLEAN :
          /\ au' = [AuReady EXCEPT !.input_features = features,
                                   !.duration_minutes = minutes,
                                   !.committed = committed]
          /\ IF committed
             THEN /\ ml_predictions' = InsertPrediction(ml_predictions,
                         [prediction_type |-> "order_duration",
                          input_features |-> features,
                          duration_minutes |-> minutes])
                  /\ UNCHANGED log_errors
             ELSE /\ log_errors' =
                         IF LogPredictionExcept(OtherError).logged
                         THEN log_errors + 1 ELSE log_errors
                  /\ UNCHANGED ml_predictions
    /\ UNCHANGED <<dirExists, files, trainer, models_cache, scalers_cache,
                   app, loader, req, resp, prediction_counter, fc, rq, fe,
                   rt>>

(***************************************************************************)
(* auto_retrain.py: train_all_models and train_model.  subprocess.run      *)
(* blocks until the training script ends, so train_model is two steps:     *)
(* the script is started, the script has ended one way or another.         *)
(***************************************************************************)
\* MODELS_TO_TRAIN, lines 32-54
MODELS_TO_TRAIN ==
    <<[name |-> "duration", priority |-> 1, min_data_days |-> 90],
      [name |-> "demand", priority |-> 2, min_data_days |-> 30],
      [name |-> "routes", priority |-> 3, min_data_days |-> 60]>>

\* sorted(MODELS_TO_TRAIN, key=lambda x: x['priority']): ascending, stable
SortedByPriority(configs) ==
    LET n == Len(configs)
        rank(i) == 1 + Cardinality({j \in 1 .. n :
                         \/ configs[j].priority < configs[i].priority
                         \/ /\ configs[j].priority = configs[i].priority
                            /\ j < i})
    IN  [k \in 1 .. n |-> configs[CHOOSE i \in 1 .. n : rank(i) = k]]

\* check_data_availability, lines 56-60: a placeholder that returns True
CheckDataAvailability(min_days) == TRUE

\* how one subprocess.run call can end: the script exits with 0, exits
\* with another code, runs into timeout=3600, or run itself raises
Outcomes == {"exit_0", "exit_nonzero", "timeout", "raised"}

\* train_model without its `except Exception` clause
TrainResult_NoExcept(model_name, outcome) ==
    IF outcome = "exit_0"
    THEN [escaped |-> FALSE, model |-> model_name, status |-> "success",
          error |-> {}]
    ELSE IF outcome = "exit_nonzero"
    THEN [escaped |-> FALSE, model |-> model_name, status |-> "failed",
          error |-> {"stderr"}]
    ELSE IF outcome = "timeout"
    THEN [escaped |-> FALSE, model |-> model_name, status |-> "failed",
          error |-> {"timeout"}]
    ELSE [escaped |-> TRUE, model |-> model_name, status |-> "none",
          error |-> {}]

\* train_model lines 77-118: what it returns for each way the script ends
\* (escaped: the exception leaves train_model)
TrainResult(model_name, outcome) ==
    IF outcome = "exit_0"
    THEN [escaped |-> FALSE, model |-> model_name, status |-> "success",
          error |-> {}]
    ELSE IF outcome = "exit_nonzero"
    THEN [escaped |-> FALSE, model |-> model_name, status |-> "failed",
          error |-> {"stderr"}]
    ELSE IF outcome = "timeout"
    THEN [escaped |-> FALSE, model |-> model_name, status |-> "failed",
          error |-> {"timeout"}]
    ELSE [escaped |-> FALSE, model |-> model_name, status |-> "failed",
          error |-> {"str(e)"}]

\* train_model lines 70-75
SkippedResult(model_name) ==
    [model |-> model_name, status |-> "skipped",
     error |-> {"insufficient_data"}]

\* models: the sorted list; i: the loop position; running: the scripts
\* that are executing; ran: how each script that was started ended
RtReady == [pc |-> "ready", models |-> <<>>, i |-> 0, results |-> <<>>,
            running |-> {}, ran |-> <<>>]

\* train_all_models lines 122-125
TrainAllBegin ==
    /\ rt.pc = "ready"
    /\ rt' = [rt EXCEPT !.pc = "loop",
                        !.models = SortedByPriority(MODELS_TO_TRAIN),
                        !.i = 1]
    /\ UNCHANGED <<dirExists, files, trainer, models_cache, scalers_cache,
                   app, loader, req, resp, prediction_counter,
                   ml_predictions, log_errors, fc, rq, fe, au>>

\* the loop calls train_model, which gets as far as subprocess.run
TrainModelStart ==
    /\ rt.pc = "loop"
    /\ rt.i <= Len(rt.models)
    /\ LET config == rt.models[rt.i]
       IN  IF ~CheckDataAvailability(config.min_data_days)
           THEN rt' = [rt EXCEPT
                          !.results = Append(@, SkippedResult(config.name)),
                          !.i = @ + 1]
           ELSE rt' = [rt EXCEPT !.pc = "subprocess",
                                 !.running = @ \cup {config.name}]
    /\ UNCHANGED <<dirExists, files, trainer, models_cache, scalers_cache,
                   app, loader, req, resp, prediction_counter,
                   ml_predictions, log_errors, fc, rq, fe, au>>

\* subprocess.run ends, train_model returns and the loop appends
TrainModelFinish ==
    /\ rt.pc = "subprocess"
    /\ \E outcome \in Outcomes :
          LET config == rt.models[rt.i]
              result == TrainResult(config.name, outcome)
              ended == [rt EXCEPT
                          !.running = @ \ {config.name},
                          !.ran = Append(@, [model |-> config.name,
                                             outcome |-> outcome])]
          IN  IF result.escaped
              THEN rt' = [ended EXCEPT !.pc = "raised"]
              ELSE rt' = [ended EXCEPT
                            !.pc = "loop",
                            !.results = Append(@,
                                [model |-> result.model,
                                 status |-> result.status,
                                 error |-> result.error]),
                            !.i = @ + 1]
    /\ UNCHANGED <<dirExists, files, trainer, models_cache, scalers_cache,
                   app, loader, req, resp, prediction_counter,
                   ml_predictions, log_errors, fc, rq, fe, au>>

\* train_all_models line 131
TrainAllReturn ==
    /\ rt.pc = "loop"
    /\ rt.i > Len(rt.models)
    /\ rt' = [rt EXCEPT !.pc = "returned"]
    /\ UNCHANGED <<dirExists, files, trainer, models_cache, scalers_cache,
                   app, loader, req, resp, prediction_counter,
                   ml_predictions, log_errors, fc, rq, fe, au>>

(***************************************************************************)
(* Specifications.                                                         *)
(***************************************************************************)
InitServe ==
    /\ dirExists = FALSE
    /\ files = [f \in {} |-> "ok"]
    /\ trainer = TrainerIdle
    /\ models_cache = NoCache
    /\ scalers_cache = NoCache
    /\ app = "stopped"
    /\ loader = LoaderIdle
    /\ req = ReqIdle
    /\ resp = NoResponse
    /\ prediction_counter = ZeroCounter
    /\ ml_predictions = <<>>
    /\ log_errors = 0

Init ==
    InitServe /\ fc = FcOff /\ rq = RqOff /\ fe = FeOff /\ au = AuOff /\ rt = RtOff

Next ==
    \/ SaveBegin
    \/ SaveModelFile
    \/ SaveScalerFile
    \/ SaveJsonFiles
    \/ LifespanStartup
    \/ LoadScaler
    \/ LifespanShutdown
    \/ DurationBegin
    \/ DurationScore
    \/ DurationLog
    \/ PredictDemand

Spec == Init /\ [][Next]_vars

InitForecast ==
    /\ InitServe
    /\ rq = RqOff
    /\ fe = FeOff
    /\ au = AuOff
    /\ rt = RtOff
    /\ \E rows \in (Histories \cup {ExampleHistory}) \ {<<>>},
          horizon \in Horizons :
          fc = [FcOff EXCEPT !.pc = "ready", !.rows = rows, !.horizon = horizon]

NextForecast == RunForecast

SpecForecast == InitForecast /\ [][NextForecast]_vars

\* the bodies a client may send: a valid one, changed in at most MaxBad
\* fields; the artifact being served came with any of ArtifactSchemas
InitRequest ==
    /\ InitServe
    /\ fc = FcOff
    /\ fe = FeOff
    /\ au = AuOff
    /\ rt = RtOff
    /\ \E endpoint \in ModelTypes, schema \in ArtifactSchemas :
          \E S \in SUBSET Range(RequestFields(endpoint)) :
             /\ Cardinality(S) <= MaxBad
             /\ \E how \in [S -> Kinds] :
                   rq = [RqOff EXCEPT
                            !.pc = "received",
                            !.endpoint = endpoint,
                            !.body = Body(RequestFields(endpoint), how),
                            !.schema =
                                IF endpoint = "duration"
                                THEN schema
                                ELSE {}]

NextRequest ==
    \/ ValidateRequest
    \/ AssembleFeatures
    \/ ScoreFeatures

SpecRequest == InitRequest /\ [][NextRequest]_vars

InitAudit ==
    /\ InitServe
    /\ fc = FcOff
    /\ rq = RqOff
    /\ fe = FeOff
    /\ rt = RtOff
    /\ au = AuReady

NextAudit == LogPredictionToDb

SpecAudit == InitAudit /\ [][NextAudit]_vars

InitOthersOff ==
    /\ InitServe
    /\ fc = FcOff
    /\ rq = RqOff
    /\ au = AuOff
    /\ rt = RtOff

\* one SKU's history over Days, or one order's priority label
InitFeatures ==
    /\ InitOthersOff
    /\ \/ \E history \in [Days -> 0 .. MaxVal] :
             fe = [FeReady EXCEPT
                      !.table = [c \in Cells |->
                                   IF c[1] = 1 THEN history[c[2]] ELSE 0]]
       \/ \E priority \in Priorities :
             fe = [FeReady EXCEPT !.kind = "order", !.priority = priority]

NextFeatures ==
    \/ ExtractDemandFeatures
    \/ ExtractOrderFeatures

SpecFeatures == InitFeatures /\ [][NextFeatures]_vars

\* the days on which each of two SKUs was ordered
InitChange ==
    /\ InitOthersOff
    /\ \E table \in [Cells -> 0 .. 1] : fe = [FeReady EXCEPT !.table = table]

NextChange ==
    \/ ExtractDemandFeatures
    \/ ChangeRows

SpecChange == InitChange /\ [][NextChange]_vars

InitRetrain ==
    /\ InitServe
    /\ fc = FcOff
    /\ rq = RqOff
    /\ fe = FeOff
    /\ au = AuOff
    /\ rt = RtReady

NextRetrain ==
    \/ TrainAllBegin
    \/ TrainModelStart
    \/ TrainModelFinish
    \/ TrainAllReturn

SpecRetrain == InitRetrain /\ [][NextRetrain]_vars

(***************************************************************************)
(* Properties.                                                             *)
(***************************************************************************)
\* the model files of the directory that joblib.load can read
LoadableModels(dir) ==
    {f \in DOMAIN dir : f.prefix = "model_" /\ f.suffix = ".pkl" /\ dir[f] = "ok"}

ModelCandidates(dir) ==
    {f \in DOMAIN dir : f.prefix = "model_" /\ f.suffix = ".pkl"}

\* a step of LifespanStartup that did not end in an exception
StartupReturned ==
    /\ app \in {"stopped", "failed"}
    /\ loader.pc = "idle"
    /\ app' \in {"starting", "serving"}

\* the forecast the specification asks for, in hundredths
ClaimedQuantity(H, day) ==
    LET n == Min(7, Len(H))
        R == SubSeq(H, Len(H) - n + 1, Len(H))
        diff == IF Len(H) >= 7 THEN H[Len(H)] - H[Len(H) - 6] ELSE 0
    IN  RoundHalfEven(100 * Max(0, 7 * SumSeq(R) + n * diff * day), 7 * n)

ClaimedForecast(H, horizon) ==
    [day \in 1 .. horizon |->
        [day |-> day, forecast_quantity |-> ClaimedQuantity(H, day)]]

\* C1: for every non-empty ascending history and every horizon the forecast
\* block returns one entry per day 1 .. horizon, in order, each holding
\* max(0, avg + trend * day) to two decimals (12.71 and 13.43 for the
\* example history and horizon 2).
C1_FallbackForecast ==
    fc.pc = "done" =>
        /\ ~fc.out.raised
        /\ fc.out.forecasts = ClaimedForecast(fc.rows, fc.horizon)
        /\ (fc.rows = ExampleHistory /\ fc.horizon = 2 =>
              /\ fc.out.forecasts[1].forecast_quantity = 1271
              /\ fc.out.forecasts[2].forecast_quantity = 1343)

\* C2: every response predict_order_duration builds, whatever the model
\* returned, has duration_minutes >= 0 and duration_hours >= 0.
C2_DurationNonNegative ==
    /\ req.pc = "scored" =>
          /\ req.response.duration_minutes >= 0
          /\ req.response.duration_hours >= 0
    /\ (resp.endpoint = "duration" /\ resp.status = 200) =>
          /\ resp.duration_minutes >= 0
          /\ resp.duration_hours >= 0

\* a negative raw prediction was returned to the caller as zero
C2_Witness ==
    /\ resp.endpoint = "duration"
    /\ resp.status = 200
    /\ resp.raw < 0
    /\ resp.duration_minutes = 0
    /\ resp.duration_hours = 0

\* C3: a request that found no artifact cached for its model type ends with
\* 503 (ModelUnavailable), on both endpoints.
C3_NoArtifactIsModelUnavailable ==
    (resp.endpoint \in {"duration", "demand"} /\ ~resp.model_seen) =>
        resp.status = 503

\* C4: a predict_demand request for a SKU with history, made while no demand
\* model is cached, is answered with the fallback forecast.
C4_FallbackServedWithoutModel ==
    (resp.endpoint = "demand" /\ ~resp.model_seen /\ resp.rows # <<>>) =>
        /\ resp.status = 200
        /\ resp.forecasts # <<>>

\* C5: a load that raised leaves no entry for the type in either cache, so
\* a cached model never lacks the scaler that failed to load.
C5_NoPartialArtifact ==
    (app = "failed" /\ loader.pc = "idle") =>
        /\ "duration" \notin DOMAIN models_cache
        /\ "duration" \notin DOMAIN scalers_cache

\* C6: a load that returns while the type is cached (model and scaler) and
\* discovery found a newer loadable model leaves that newer model in the
\* type's cache slot.
C6_NewerCandidateReplaces ==
    [][\A f \in LoadableModels(files) :
          (/\ StartupReturned
           /\ "duration" \in DOMAIN models_cache
           /\ "duration" \in DOMAIN scalers_cache
           /\ f \in FindLatestModel(dirExists, DOMAIN files, "model_").path
           /\ StampValue(models_cache["duration"].stamp) < StampValue(f.stamp))
          => (/\ "duration" \in DOMAIN models_cache'
              /\ models_cache'["duration"] = f)]_vars

\* C7: a failed load never stops the application: lifespan still reaches
\* its yield and requests go on being served.
C7_LoadFailureKeepsServing == app # "failed"

\* C8: the model and scaler a request scales and scores with are the pair
\* it read from the caches when it started, whatever a load did since.
C8_RequestUsesItsSnapshot ==
    /\ req.pc \in {"loaded", "scored"} =>
          req.response.read = <<req.model, req.scaler>>
    /\ req.pc = "scored" => req.response.used = req.response.read
    /\ (resp.endpoint = "duration" /\ resp.status = 200) =>
          resp.used = resp.read

\* a request was scored after a load changed the caches it had read
C8_Witness ==
    /\ req.pc = "scored"
    /\ req.response.read # <<Cached(models_cache, "duration"),
                             Cached(scalers_cache, "duration")>>
    /\ req.response.used = req.response.read

\* C9: when discovery and load return (entered with the cache empty or
\* holding a model with its scaler), the model cached for the type is the
\* loadable candidate with the greatest timestamp, and file names order as
\* their timestamps do.
C9_CachedIsLatestLoadable ==
    [][(/\ StartupReturned
        /\ DOMAIN scalers_cache = DOMAIN models_cache
        /\ LoadableModels(files) # {}) =>
          /\ "duration" \in DOMAIN models_cache'
          /\ \A f \in LoadableModels(files) :
                StampValue(f.stamp)
                    <= StampValue(models_cache'["duration"].stamp)
          /\ \A f, g \in ModelCandidates(files) :
                TextLess(f.stamp, g.stamp)
                    <=> StampValue(f.stamp) < StampValue(g.stamp)]_vars

\* C10: when the directory is missing or holds no model_*.pkl, discovery
\* returns no candidate without raising and startup completes with nothing
\* cached for the type.
C10_NoCandidateStartup ==
    [][(/\ app \in {"stopped", "failed"}
        /\ loader.pc = "idle"
        /\ app' # app
        /\ (~dirExists \/ ModelCandidates(files) = {}))
       => (/\ FindLatestModel(dirExists, DOMAIN files, "model_")
                 = [raised |-> FALSE, path |-> {}]
           /\ app' = "serving"
           /\ loader' = LoaderIdle
           /\ "duration" \notin DOMAIN models_cache'
           /\ "duration" \notin DOMAIN scalers_cache')]_vars

\* startup completed on an existing directory without a model file
C10_Witness ==
    /\ app = "serving"
    /\ dirExists
    /\ ModelCandidates(files) = {}
    /\ models_cache = NoCache
    /\ scalers_cache = NoCache

\* the fields a body carries with a value outside the declared range
OutOfRange(endpoint, body) ==
    {f \in Range(RequestFields(endpoint)) \cap DOMAIN body :
        \/ \E lo \in Ge(f) : body[f] < lo
        \/ \E hi \in Le(f) : body[f] > hi}

\* C11: a request of either endpoint with one or more fields outside their
\* declared ranges is answered with one validation error (422) that names
\* every such field, and no feature vector is built or scored for it.
C11_AllViolationsReported ==
    (rq.pc \notin {"off", "received"}
     /\ OutOfRange(rq.endpoint, rq.body) # {}) =>
        /\ rq.pc = "rejected"
        /\ rq.status = 422
        /\ OutOfRange(rq.endpoint, rq.body) \subseteq rq.errors
        /\ rq.features = <<>>

\* a request with hour_of_day and day_of_week both out of range was
\* rejected with both named
C11_Witness ==
    /\ rq.pc = "rejected"
    /\ rq.endpoint = "duration"
    /\ {"hour_of_day", "day_of_week"}
           \subseteq OutOfRange(rq.endpoint, rq.body)
    /\ {"hour_of_day", "day_of_week"} \subseteq rq.errors

C13_SchemaMismatchRejected ==
    (rq.pc \in {"featurized", "scored", "failed"}
     /\ \E saved \in rq.schema : saved # FeatureAttributes) =>
        /\ rq.pc # "scored"
        /\ rq.status # 200

\* C14: a predict_duration request that lacks a feature field is still
\* featurized and scored, with zero in that field's position.
C14_AbsentFieldIsZero ==
    (rq.endpoint = "duration"
     /\ rq.pc \notin {"off", "received"}
     /\ OutOfRange(rq.endpoint, rq.body) = {}
     /\ \E f \in Range(OrderDurationFields) : f \notin DOMAIN rq.body) =>
        /\ rq.pc # "rejected"
        /\ rq.pc \in {"featurized", "scored", "failed"} =>
              \A i \in DOMAIN FeatureAttributes :
                 FeatureAttributes[i] \notin DOMAIN rq.body
                     => rq.features[i] = 0

\* a step in which predict_order_duration returns after line 365
DurationReturns == req.pc = "scored" /\ req'.pc = "idle"

\* C15: when the insert of log_prediction_to_db fails, predict_duration
\* returns the response it had built (the one a committed insert returns
\* too), the failure is reported by logger.error only, and the request
\* stays counted as a success.
C15_AuditFailureNotFatal ==
    [][DurationReturns =>
          /\ resp' = req.response
          /\ resp'.status = 200
          /\ prediction_counter' = prediction_counter
          /\ prediction_counter[<<"duration", "success">>] >= 1
          /\ (ml_predictions' = ml_predictions
                 => log_errors' = log_errors + 1)]_vars

\* a prediction was returned although its insert failed
C15_Witness ==
    /\ resp.endpoint = "duration"
    /\ resp.status = 200
    /\ ml_predictions = <<>>
    /\ log_errors = 1
    /\ prediction_counter[<<"duration", "success">>] = 1
    /\ prediction_counter[<<"duration", "error">>] = 0

\* a step in which a handler hands a response to its caller
Responds ==
    /\ req'.pc = "idle"
    /\ \/ req.pc # "idle"
       \/ resp' # resp
       \/ prediction_counter' # prediction_counter

\* log_prediction_to_db calls that have returned
AppendAttempts == Len(ml_predictions) + log_errors

C17_NoPartialStateOnError ==
    [][/\ Total(prediction_counter') <= Total(prediction_counter) + 1
       /\ \A k \in ModelTypes \X Statuses :
             prediction_counter'[k] >= prediction_counter[k]
       /\ (Responds /\ resp'.status # 200) =>
             /\ req.pc # "scored"
             /\ ml_predictions' = ml_predictions
             /\ \A t \in ModelTypes :
                   prediction_counter'[<<t, "success">>]
                       = prediction_counter[<<t, "success">>]
       /\ req.pc = "scored" => prediction_counter' = prediction_counter
       /\ (\E t \in ModelTypes :
              prediction_counter'[<<t, "success">>]
                  > prediction_counter[<<t, "success">>])
             => (req'.pc = "scored" \/ (Responds /\ resp'.status = 200))
       /\ (\E t \in ModelTypes :
              prediction_counter'[<<t, "error">>]
                  > prediction_counter[<<t, "error">>])
             => (Responds /\ resp'.status # 200)]_vars

\* a request that read the model failed in transform or predict: one
\* error counted, no success, no row
C17_Witness ==
    /\ resp.endpoint = "duration"
    /\ resp.status = 500
    /\ resp.model_seen
    /\ req.pc = "idle"
    /\ prediction_counter[<<"duration", "error">>] = 1
    /\ prediction_counter[<<"duration", "success">>] = 0
    /\ ml_predictions = <<>>

\* C18: a predict_demand request for a SKU whose history holds no rows ends
\* with 404 (NotFound) as raised, with no forecast and no error counted.
C18_NoHistoryIsNotFound ==
    (resp.endpoint = "demand" /\ resp.rows = <<>>) =>
        /\ resp.status = 404
        /\ resp.forecasts = <<>>
        /\ prediction_counter[<<"demand", "error">>] = 0

\* a step of predict_order_duration or predict_demand
HandlerStep ==
    \/ req' # req
    \/ resp' # resp
    \/ prediction_counter' # prediction_counter
    \/ ml_predictions' # ml_predictions
    \/ log_errors' # log_errors

\* a step of lifespan startup: load_all_models and load_model
LoadStep ==
    \/ app \in {"stopped", "failed"} /\ loader.pc = "idle" /\ app' # app
    \/ loader.pc = "scaler" /\ loader' = LoaderIdle

\* C19: no step of predict_order_duration or predict_demand, whether the
\* request succeeds or fails, changes models_cache or scalers_cache; the
\* caches change in load steps only.
C19_HandlersLeaveCaches ==
    [][/\ HandlerStep => UNCHANGED <<models_cache, scalers_cache>>
       /\ (models_cache' # models_cache \/ scalers_cache' # scalers_cache)
             => LoadStep]_vars

\* a request that failed after it had read the model and the scaler left
\* both cached as they were
C19_Witness ==
    /\ "duration" \in DOMAIN models_cache
    /\ "duration" \in DOMAIN scalers_cache
    /\ resp.endpoint = "duration"
    /\ resp.status = 500
    /\ resp.model_seen
    /\ resp.read = <<Cached(models_cache, "duration"),
                     Cached(scalers_cache, "duration")>>

\* C20: every duration response built by a model without predict_proba
\* carries confidence 0.85, whatever the request and whatever the model
\* returned; every demand forecast carries confidence 0.75.
C20_ConstantConfidence ==
    /\ (req.pc = "scored" /\ req.response.proba = {}) =>
          req.response.confidence = {8500}
    /\ (resp.endpoint = "duration" /\ resp.status = 200
        /\ resp.proba = {}) =>
          resp.confidence = {8500}
    /\ (resp.endpoint = "demand" /\ resp.status = 200) =>
          resp.confidence = {7500}

\* a model without predict_proba returned a positive duration and the
\* response carries 0.85
C20_Witness ==
    /\ resp.endpoint = "duration"
    /\ resp.status = 200
    /\ resp.proba = {}
    /\ resp.raw > 0
    /\ resp.duration_minutes > 0
    /\ resp.confidence = {8500}

\* C21: every write to ml_predictions adds one row after the rows already
\* there, holding the input features and the output the call was given,
\* and leaves every earlier row as it was; nothing removes a row.
C21_AuditAppendOnly ==
    [][\/ ml_predictions' = ml_predictions
       \/ /\ Len(ml_predictions') = Len(ml_predictions) + 1
          /\ SubSeq(ml_predictions', 1, Len(ml_predictions))
                = ml_predictions
          /\ ml_predictions'[Len(ml_predictions')].input_features
                = au'.input_features
          /\ ml_predictions'[Len(ml_predictions')].duration_minutes
                = au'.duration_minutes]_vars

\* two predictions with different inputs and outputs are both on record,
\* the earlier one unchanged by the later write
C21_Witness ==
    /\ Len(ml_predictions) = 2
    /\ ml_predictions[1].input_features # ml_predictions[2].input_features
    /\ ml_predictions[1].duration_minutes # ml_predictions[2].duration_minutes
    /\ au.input_features = ml_predictions[2].input_features

\* the first day on which a SKU has a row
FirstDay(table, sku) ==
    CHOOSE d \in Days :
        /\ table[<<sku, d>>] > 0
        /\ \A x \in 1 .. (d - 1) : table[<<sku, x>>] = 0

\* the metric k calendar days before the row's day on the dense grid
DenseLag(table, c, k) ==
    IF c[2] - k < FirstDay(table, c[1]) THEN {}
    ELSE {table[<<c[1], c[2] - k>>]}

\* the mean over the last 7 calendar days of the dense grid, fewer at the
\* start of the SKU's range, as <<sum, count>>
DenseMovingAverage(table, c) ==
    LET from == Max(FirstDay(table, c[1]), c[2] - 6)
    IN  <<SumOver(table, {c[1]} \X (from .. c[2])), c[2] - from + 1>>

SameMean(a, b) == a[1] * b[2] = b[1] * a[2]

\* C22: for k = 1 and k = 7 the lag-k feature of a SKU at day t is the
\* SKU's metric on day t - k of the dense grid (0 on a day without
\* orders), and NULL when t - k is before the SKU's first day.
C22_LagIsCalendarLag ==
    (fe.pc = "extracted" /\ fe.kind = "demand") =>
        \A c \in DOMAIN fe.out :
           /\ fe.out[c].lag1 = DenseLag(fe.table, c, 1)
           /\ fe.out[c].lag7 = DenseLag(fe.table, c, 7)

\* C23: the 7-period moving average of a SKU at day t is the mean of the
\* dense-grid values of the last 7 days up to t (days without orders
\* counting as zero), of all days so far while there are fewer than 7,
\* and the day's own value on the SKU's first day.
C23_MovingAverageIsDenseMean ==
    (fe.pc = "extracted" /\ fe.kind = "demand") =>
        \A c \in DOMAIN fe.out :
           /\ fe.out[c].ma7[2] > 0
           /\ SameMean(fe.out[c].ma7, DenseMovingAverage(fe.table, c))
           /\ (c[2] = FirstDay(fe.table, c[1])
                 => fe.out[c].ma7 = <<fe.table[c], 1>>)

\* C26: std_daily of a SKU whose history is a single day, or whose daily
\* values are all equal, is 0 and not NULL.
C26_DegenerateStdIsZero ==
    (fe.pc = "extracted" /\ fe.kind = "demand") =>
        \A c \in DOMAIN fe.out :
           (\A x, y \in Partition(fe.table, c[1]) :
               fe.table[x] = fe.table[y])
             => fe.out[c].std_daily = {0}

\* a re-extraction after the orders of one <<sku, day>> changed
Reextracted == fe.pc = "extracted" /\ fe'.pc = "changed"

\* C24: when rows of a SKU at days later than t change (appear, vanish or
\* get another value), the SKU's lag-1, lag-7 and moving-average features
\* at day t stay what they were.
C24_LaterRowsDoNotReachBack ==
    [][Reextracted =>
          \A x \in DOMAIN fe.out :
             (x[1] = fe'.changed[1] /\ x[2] < fe'.changed[2]) =>
                /\ x \in DOMAIN fe'.out
                /\ fe'.out[x].lag1 = fe.out[x].lag1
                /\ fe'.out[x].lag7 = fe.out[x].lag7
                /\ fe'.out[x].ma7 = fe.out[x].ma7]_vars

\* a later day of SKU 1 changed, the SKU has an earlier row with a lag-1
\* value, and the features of some row did change
C24_Witness ==
    /\ fe.pc = "changed"
    /\ fe.changed[1] = 1
    /\ fe.before # fe.out
    /\ \E x \in DOMAIN fe.out :
          /\ x[1] = 1
          /\ x[2] < fe.changed[2]
          /\ fe.out[x].lag1 # {}

\* C25: when the rows of one SKU change, every lag, moving-average and
\* per-SKU aggregate feature of every row of every other SKU stays what
\* it was.
C25_OtherEntitiesUntouched ==
    [][Reextracted =>
          \A x \in DOMAIN fe.out :
             x[1] # fe'.changed[1] =>
                /\ x \in DOMAIN fe'.out
                /\ fe'.out[x] = fe.out[x]]_vars

\* a row of one SKU changed while the other SKU has rows, and the
\* features of the changed SKU did change
C25_Witness ==
    /\ fe.pc = "changed"
    /\ fe.before # fe.out
    /\ \E x \in DOMAIN fe.out :
          /\ x[1] # fe.changed[1]
          /\ x \in DOMAIN fe.before
    /\ \E y \in DOMAIN fe.out :
          /\ y[1] = fe.changed[1]
          /\ y # fe.changed

\* the labels the CASE of extract_order_features lists
KnownPriorities == {{"LOW"}, {"NORMAL"}, {"HIGH"}, {"URGENT"}}

\* C27: priority_level is defined for every label, is 1, 2, 3, 4 for LOW,
\* NORMAL, HIGH, URGENT, is 2 for an unknown or missing label, and always
\* passes the ge=1, le=4 validation of the request's priority_level.
C27_PriorityEncoding ==
    (fe.pc = "extracted" /\ fe.kind = "order") =>
        /\ Cardinality(fe.out.priority_level) = 1
        /\ fe.priority = {"LOW"} => fe.out.priority_level = {1}
        /\ fe.priority = {"NORMAL"} => fe.out.priority_level = {2}
        /\ fe.priority = {"HIGH"} => fe.out.priority_level = {3}
        /\ fe.priority = {"URGENT"} => fe.out.priority_level = {4}
        /\ fe.priority \notin KnownPriorities
              => fe.out.priority_level = {2}
        /\ \A level \in fe.out.priority_level :
              ~FieldFails("priority_level", [priority_level |-> level])

\* an order whose label the CASE does not list got the mid value
C27_Witness ==
    /\ fe.pc = "extracted"
    /\ fe.kind = "order"
    /\ fe.priority = {"urgent"}
    /\ fe.out.priority_level = {2}

\* C28: the scaler cached for a model type comes from the same training
\* run as the cached model: both file names carry the same timestamp.
C28_ScalerFromSameRun ==
    \A t \in DOMAIN scalers_cache :
       /\ t \in DOMAIN models_cache
       /\ scalers_cache[t].stamp = models_cache[t].stamp

\* C29: the only model type ever cached is "duration"; hence every
\* predict_demand request ends with 503 (ModelUnavailable) at the cache
\* test, before the history query and with no forecast.
C29_DemandNeverLoaded ==
    /\ DOMAIN models_cache \subseteq {"duration"}
    /\ DOMAIN scalers_cache \subseteq {"duration"}
    /\ resp.endpoint = "demand" =>
          /\ resp.status = 503
          /\ ~resp.model_seen
          /\ resp.forecasts = <<>>
          /\ resp.confidence = {}

\* a demand request for a SKU that has history, answered 503 by a server
\* that has its duration model and scaler loaded
C29_Witness ==
    /\ resp.endpoint = "demand"
    /\ resp.status = 503
    /\ resp.rows # <<>>
    /\ DOMAIN models_cache = {"duration"}
    /\ DOMAIN scalers_cache = {"duration"}

\* the configured model that has exactly k - 1 models of lower priority
KthByPriority(k) ==
    CHOOSE c \in Range(MODELS_TO_TRAIN) :
        Cardinality({d \in Range(MODELS_TO_TRAIN) :
                        d.priority < c.priority}) = k - 1

\* C30: train_all_models trains one model at a time in ascending priority
\* order; its results are one per configured model in that order, each
\* success, failed or skipped; a script that exits non-zero, times out or
\* makes subprocess.run raise is recorded as failed, and the models after
\* it are still trained.
C30_OneResultPerModelInOrder ==
    /\ rt.pc # "raised"
    /\ Cardinality(rt.running) <= 1
    /\ rt.running # {} => Len(rt.ran) = Len(rt.results)
    /\ \A k \in 1 .. Len(rt.results) :
          /\ rt.results[k].model = KthByPriority(k).name
          /\ rt.results[k].status \in {"success", "failed", "skipped"}
    /\ \A k \in 1 .. Len(rt.ran) :
          /\ k <= Len(rt.results)
          /\ rt.ran[k].model = rt.results[k].model
          /\ rt.results[k].status =
                IF rt.ran[k].outcome = "exit_0" THEN "success" ELSE "failed"
    /\ rt.pc = "returned" => Len(rt.results) = Len(MODELS_TO_TRAIN)

\* a finished run in which the first script raised, the second timed out
\* and the third was still trained, successfully
C30_Witness ==
    /\ rt.pc = "returned"
    /\ Len(rt.ran) = Len(MODELS_TO_TRAIN)
    /\ rt.ran[1].outcome = "raised"
    /\ rt.ran[2].outcome = "timeout"
    /\ rt.results[3].status = "success"

====
